---- MODULE Spec2Model ----
(***************************************************************************)
(* Model of the CPU QR code detector: src/qr_detector.py (detect_qr_codes, *)
(* draw_qr_boxes, count_qr_codes) and src/app.py (load_image,              *)
(* format_results, main).                                                  *)
(*                                                                         *)
(* One run of main() is a state machine whose position is pc.  The pure    *)
(* functions are operators.  The external collaborators are modelled by    *)
(* what the code reads from them:                                          *)
(*  - cv2.QRCodeDetector.detectAndDecodeMulti either raises or returns a   *)
(*    tuple.  Line 32 unpacks it into three names (decoded_texts, points,  *)
(*    _); the library documents a return of four items (retval,            *)
(*    decoded_info, points, straight_qrcode).  Both shapes are outcomes of *)
(*    the call: unpacking four items into three names raises ValueError.   *)
(*    points is None or a sequence of 4-point boxes.  The two sequences    *)
(*    may differ in length: the code pairs them with zip and checks        *)
(*    neither;                                                             *)
(*  - a numpy array is an object on a heap, named by a reference, so that  *)
(*    copying and aliasing differ; its content is its pixels and the       *)
(*    drawing calls applied to it, in order;                               *)
(*  - streamlit is the sequence ui of the elements rendered so far.        *)
(* Coordinates are counted in half pixels (3 is 1.5 px) so that            *)
(* astype(int) is a real conversion.                                       *)
(***************************************************************************)
EXTENDS Integers, Sequences, FiniteSets, TLC

\* Largest number of entries in either detector output sequence.
MaxSymbols == 3

SeqsUpTo(S, n) == UNION {[1..k -> S] : k \in 0..n}

Min(a, b) == IF a < b THEN a ELSE b

Reverse(s) == [i \in 1..Len(s) |-> s[Len(s) + 1 - i]]

(***************************************************************************)
(* Input domains                                                           *)
(***************************************************************************)

\* Decoded texts the detector can emit; "" is a located but undecoded symbol.
Texts == {"", "A", "B"}

\* Boundaries the detector can emit: 4 corner points (x, y), in half pixels.
BoxA == << <<3, 2>>, <<9, 2>>, <<9, 8>>, <<3, 8>> >>
BoxB == << <<-1, 5>>, <<4, 0>>, <<11, 7>>, <<6, 13>> >>
Boxes == {BoxA, BoxB}

\* Exceptions a failing detector call can raise.
Exceptions == {"cv2.error", "MemoryError"}

\* Uploaded PIL images: a mode and one band tuple per pixel.
Images ==
  { [mode |-> "L",    px |-> << <<7>> >>],
    [mode |-> "RGB",  px |-> << <<1, 2, 3>> >>],
    [mode |-> "RGB",  px |-> << <<255, 255, 255>> >>],
    [mode |-> "RGBA", px |-> << <<1, 2, 3, 128>> >>] }

\* Number of items of the tuple a returning call hands back: the three that
\* line 32 unpacks, or the four the library documents.
TupleItems == {3, 4}

\* What one call of detectAndDecodeMulti can do: raise, or return a tuple of
\* `items` items holding the decoded texts and the points (possibly None):
\* (decoded_texts, points, _) or (retval, decoded_texts, points, _).
ReturnOutcomes ==
  { [raises |-> FALSE, exc |-> "", items |-> n, decoded_texts |-> t,
     points_none |-> FALSE, points |-> p] :
      n \in TupleItems, t \in SeqsUpTo(Texts, MaxSymbols),
      p \in SeqsUpTo(Boxes, MaxSymbols) }
  \cup
  { [raises |-> FALSE, exc |-> "", items |-> n, decoded_texts |-> t,
     points_none |-> TRUE, points |-> <<>>] :
      n \in TupleItems, t \in SeqsUpTo(Texts, MaxSymbols) }

RaiseOutcomes ==
  { [raises |-> TRUE, exc |-> e, items |-> 0, decoded_texts |-> <<>>,
     points_none |-> TRUE, points |-> <<>>] :
      e \in Exceptions }

DetectorOutcomes == ReturnOutcomes \cup RaiseOutcomes

\* The detector as seen by one request: the outcome of its 1st call and, were
\* a failed call ever repeated, of the 2nd.
DetectorScripts ==
  { <<o>> : o \in ReturnOutcomes }
  \cup { <<r, o>> : r \in RaiseOutcomes, o \in DetectorOutcomes }

(***************************************************************************)
(* src/qr_detector.py                                                      *)
(***************************************************************************)

QRCodeResult(data, points) == [data |-> data, points |-> points]

\* line 32: the n-th call of detector.detectAndDecodeMulti(image)
detectAndDecodeMulti(detector, n) == detector[n]

\* line 32: the assignment to decoded_texts, points, _ succeeds on exactly
\* three items and raises ValueError otherwise
Unpacks(out) == out.items = 3

\* line 34: points is None or len(decoded_texts) == 0
NothingDetected(out) == out.points_none \/ Len(out.decoded_texts) = 0

\* line 39: if text
KeepAll(text) == TRUE
Truthy(text) == text # ""

\* line 40: QRCodeResult(data=text, points=box), box being points[i]
ResultEntryReversedBox(texts, points, i, results) ==
  QRCodeResult(texts[i], Reverse(points[i]))
ResultEntry(texts, points, i, results) == QRCodeResult(texts[i], points[i])

\* lines 37-42: the loop over zip(decoded_texts, points), from pair i on
RECURSIVE ZipLoop(_, _, _, _)
ZipLoop(texts, points, i, results) ==
  IF i > Min(Len(texts), Len(points))
    THEN results
    ELSE ZipLoop(texts, points, i + 1,
                 IF Truthy(texts[i])
                   THEN Append(results, ResultEntry(texts, points, i, results))
                   ELSE results)

\* lines 28-42.  calls: the detector outcomes consumed, in order.
\* When points is None line 34 returns before the loop, so zip never sees it.
detect_qr_codes_swallow(detector) ==
  LET out == detectAndDecodeMulti(detector, 1)
  IN  IF out.raises \/ ~Unpacks(out) \/ NothingDetected(out)
        THEN [raised |-> FALSE, exc |-> "", value |-> <<>>, calls |-> <<out>>]
        ELSE [raised |-> FALSE, exc |-> "",
              value |-> ZipLoop(out.decoded_texts, out.points, 1, <<>>),
              calls |-> <<out>>]
detect_qr_codes_retry(detector) ==
  LET first == detectAndDecodeMulti(detector, 1)
      out   == IF first.raises THEN detectAndDecodeMulti(detector, 2) ELSE first
      calls == IF first.raises THEN <<first, out>> ELSE <<first>>
  IN  IF out.raises
        THEN [raised |-> TRUE, exc |-> out.exc, value |-> <<>>, calls |-> calls]
        ELSE IF ~Unpacks(out)
          THEN [raised |-> TRUE, exc |-> "ValueError", value |-> <<>>, calls |-> calls]
          ELSE IF NothingDetected(out)
            THEN [raised |-> FALSE, exc |-> "", value |-> <<>>, calls |-> calls]
            ELSE [raised |-> FALSE, exc |-> "",
                  value |-> ZipLoop(out.decoded_texts, out.points, 1, <<>>),
                  calls |-> calls]
detect_qr_codes(detector) ==
  LET out == detectAndDecodeMulti(detector, 1)
  IN  IF out.raises
        THEN [raised |-> TRUE, exc |-> out.exc, value |-> <<>>, calls |-> <<out>>]
        ELSE IF ~Unpacks(out)
          THEN [raised |-> TRUE, exc |-> "ValueError", value |-> <<>>, calls |-> <<out>>]
          ELSE IF NothingDetected(out)
            THEN [raised |-> FALSE, exc |-> "", value |-> <<>>, calls |-> <<out>>]
            ELSE [raised |-> FALSE, exc |-> "",
                  value |-> ZipLoop(out.decoded_texts, out.points, 1, <<>>),
                  calls |-> <<out>>]

\* line 57: result.points.astype(int) truncates each coordinate toward zero
\* (half pixels in, whole pixels out)
astype_int(h) == IF h >= 0 THEN h \div 2 ELSE -((-h) \div 2)
points_astype_int(points) ==
  [j \in 1..Len(points) |-> <<astype_int(points[j][1]), astype_int(points[j][2])>>]

\* line 55: image.copy() allocates a new array holding the same content
ndarray_alias(h, image) == [heap |-> h, ref |-> image]
ndarray_copy(h, image) == [heap |-> Append(h, h[image]), ref |-> Len(h) + 1]

\* line 58: cv2.polylines(output, [pts], isClosed=True, color=(0, 255, 0), thickness=2)
polylines(h, output, pts) ==
  [h EXCEPT ![output].drawn =
     Append(@, [fn |-> "polylines", pts |-> pts, isClosed |-> TRUE,
                color |-> <<0, 255, 0>>, thickness |-> 2])]

\* lines 61-70: cv2.putText(output, label, text_origin, FONT_HERSHEY_SIMPLEX,
\* 0.5, (255, 0, 0), 1, LINE_AA)
putText(h, output, text, org) ==
  [h EXCEPT ![output].drawn =
     Append(@, [fn |-> "putText", text |-> text, org |-> org,
                fontFace |-> "FONT_HERSHEY_SIMPLEX", fontScale |-> "0.5",
                color |-> <<255, 0, 0>>, thickness |-> 1, lineType |-> "LINE_AA"])]

\* line 59: f"{idx}: {result.data}", idx counting from 1 (line 56)
label_from_zero(idx, result) == ToString(idx - 1) \o ": " \o result.data
label(idx, result) == ToString(idx) \o ": " \o result.data

\* line 60: tuple(pts[0])
text_origin(pts) == pts[1]

\* lines 56-70: the loop over enumerate(results, start=1), from idx on
RECURSIVE DrawLoop(_, _, _, _)
DrawLoop(h, output, results, idx) ==
  IF idx > Len(results)
    THEN h
    ELSE LET result == results[idx]
             pts    == points_astype_int(result.points)
             h1     == polylines(h, output, pts)
             h2     == putText(h1, output, label(idx, result), text_origin(pts))
         IN  DrawLoop(h2, output, results, idx + 1)

\* lines 45-72: the heap after the call, and the reference returned
draw_qr_boxes(h, image, results) ==
  LET c == ndarray_copy(h, image)
  IN  [heap |-> DrawLoop(c.heap, c.ref, results, 1), ref |-> c.ref]

\* lines 75-84
count_qr_codes(results) == Len(results)

(***************************************************************************)
(* src/app.py                                                              *)
(***************************************************************************)

\* line 23: image_file.convert("RGB"), one pixel
convert_RGB(mode, p) ==
  IF mode = "L" THEN <<p[1], p[1], p[1]>>
  ELSE IF mode = "RGBA" THEN <<p[1], p[2], p[3]>>
  ELSE p

\* cv2.cvtColor with COLOR_RGB2BGR or COLOR_BGR2RGB: a new array with the
\* channels of every pixel swapped, drawn pixels included
cvtColor(buf) ==
  [px    |-> [i \in 1..Len(buf.px) |-> Reverse(buf.px[i])],
   drawn |-> [i \in 1..Len(buf.drawn) |->
                [buf.drawn[i] EXCEPT !.color = Reverse(@)]]]

\* lines 14-24
load_image(image_file) ==
  cvtColor([px    |-> [i \in 1..Len(image_file.px) |->
                         convert_RGB(image_file.mode, image_file.px[i])],
            drawn |-> <<>>])

\* line 36: f"{idx}. {result.data}", idx counting from 1
format_entry_colon(idx, result) == ToString(idx) \o ": " \o result.data
format_entry(idx, result) == ToString(idx) \o ". " \o result.data

\* lines 27-36
format_results(results) ==
  [idx \in 1..Len(results) |-> format_entry(idx, results[idx])]

\* line 71: if results
list_not_none(results) == TRUE
list_truthy(results) == Len(results) > 0

\* What streamlit has rendered: one element per st.* call.  st.write of a
\* list (line 73) has kind "write_list", st.write of a text kind "write".
Element(kind, body) == [kind |-> kind, body |-> body]

NoUpload == [present |-> FALSE, image |-> [mode |-> "", px |-> <<>>]]
Upload(img) == [present |-> TRUE, image |-> img]

VARIABLES
  pc,             \* position in main()
  uploaded_file,  \* line 48
  heap,           \* the numpy arrays allocated so far
  bgr_image,      \* line 55: reference into heap, 0 before
  detector_log,   \* outcomes of the detector calls made
  results,        \* line 56
  annotated,      \* line 65: reference into heap, 0 before
  ui,             \* elements rendered so far
  exc             \* exception that left main(), "" if none

vars == <<pc, uploaded_file, heap, bgr_image, detector_log, results, annotated, ui, exc>>

Init ==
  /\ pc = "start"
  /\ uploaded_file = NoUpload
  /\ heap = <<>>
  /\ bgr_image = 0
  /\ detector_log = <<>>
  /\ results = <<>>
  /\ annotated = 0
  /\ ui = <<>>
  /\ exc = ""

\* lines 41-48
Header ==
  << Element("set_page_config", "QR Code Detector"),
     Element("title", "CPU QR Code Detector"),
     Element("write", "Upload an image with multiple QR codes. The app will count and decode them using OpenCV's QRCodeDetector (CPU-friendly)."),
     Element("file_uploader", "Upload an image") >>

\* lines 41-52: nothing uploaded
StartNoUpload ==
  /\ pc = "start"
  /\ uploaded_file' = NoUpload
  /\ ui' = Header \o << Element("info", "Please upload an image to begin.") >>
  /\ pc' = "done"
  /\ UNCHANGED <<heap, bgr_image, detector_log, results, annotated, exc>>

\* lines 41-50: a file was uploaded
StartUpload ==
  /\ pc = "start"
  /\ \E img \in Images : uploaded_file' = Upload(img)
  /\ ui' = Header
  /\ pc' = "uploaded"
  /\ UNCHANGED <<heap, bgr_image, detector_log, results, annotated, exc>>

\* lines 54-55
LoadImage ==
  /\ pc = "uploaded"
  /\ heap' = Append(heap, load_image(uploaded_file.image))
  /\ bgr_image' = Len(heap) + 1
  /\ pc' = "loaded"
  /\ UNCHANGED <<uploaded_file, detector_log, results, annotated, ui, exc>>

\* line 56, the call returns
DetectReturn ==
  /\ pc = "loaded"
  /\ \E detector \in DetectorScripts :
       LET r == detect_qr_codes(detector)
       IN  /\ ~r.raised
           /\ detector_log' = r.calls
           /\ results' = r.value
  /\ pc' = "detected"
  /\ UNCHANGED <<uploaded_file, heap, bgr_image, annotated, ui, exc>>

\* line 56, the call raises (the detector's exception, or the ValueError
\* of the unpack): nothing in main() catches it
DetectRaise ==
  /\ pc = "loaded"
  /\ \E detector \in DetectorScripts :
       LET r == detect_qr_codes(detector)
       IN  /\ r.raised
           /\ detector_log' = r.calls
           /\ exc' = r.exc
  /\ pc' = "raised"
  /\ UNCHANGED <<uploaded_file, heap, bgr_image, results, annotated, ui>>

\* lines 58-61
Col1 ==
  /\ pc = "detected"
  /\ ui' = ui \o << Element("columns", 2),
                    Element("subheader", "Original"),
                    Element("image", uploaded_file.image) >>
  /\ pc' = "col1"
  /\ UNCHANGED <<uploaded_file, heap, bgr_image, detector_log, results, annotated, exc>>

\* lines 63-67
Col2 ==
  /\ pc = "col1"
  /\ LET d == draw_qr_boxes(heap, bgr_image, results)
         rgb_annotated == cvtColor(d.heap[d.ref])
     IN  /\ heap' = Append(d.heap, rgb_annotated)
         /\ annotated' = d.ref
         /\ ui' = ui \o << Element("subheader", "Detected"),
                           Element("image", rgb_annotated) >>
  /\ pc' = "col2"
  /\ UNCHANGED <<uploaded_file, bgr_image, detector_log, results, exc>>

\* line 69
Metric ==
  /\ pc = "col2"
  /\ ui' = Append(ui, Element("metric",
                    [label |-> "QR Codes Found", value |-> count_qr_codes(results)]))
  /\ pc' = "metric"
  /\ UNCHANGED <<uploaded_file, heap, bgr_image, detector_log, results, annotated, exc>>

\* lines 71-73
ShowDecoded ==
  /\ pc = "metric"
  /\ list_truthy(results)
  /\ ui' = ui \o << Element("subheader", "Decoded Data"),
                    Element("write_list", format_results(results)) >>
  /\ pc' = "done"
  /\ UNCHANGED <<uploaded_file, heap, bgr_image, detector_log, results, annotated, exc>>

\* lines 74-75
ShowWarning ==
  /\ pc = "metric"
  /\ ~list_truthy(results)
  /\ ui' = Append(ui, Element("warning", "No QR codes detected. Try a clearer image."))
  /\ pc' = "done"
  /\ UNCHANGED <<uploaded_file, heap, bgr_image, detector_log, results, annotated, exc>>

Next ==
  \/ StartNoUpload
  \/ StartUpload
  \/ LoadImage
  \/ DetectReturn
  \/ DetectRaise
  \/ Col1
  \/ Col2
  \/ Metric
  \/ ShowDecoded
  \/ ShowWarning

Spec == Init /\ [][Next]_vars

(***************************************************************************)
(* Properties                                                              *)
(***************************************************************************)

\* detect_qr_codes has returned to main()
DetectionReturned ==
  uploaded_file.present /\ pc \in {"detected", "col1", "col2", "metric", "done"}

\* draw_qr_boxes has returned to main()
Annotated == uploaded_file.present /\ pc \in {"col2", "metric", "done"}

\* what the detector call of this request returned
Out == detector_log[1]

\* positions at which the detector emitted both a text and a boundary
Entries == 1..Min(Len(Out.decoded_texts), Len(Out.points))

\* the entries that were decoded
Decoded == {i \in Entries : Out.decoded_texts[i] # ""}

\* 1-based rank of i among the decoded entries
Rank(i) == Cardinality({j \in Decoded : j <= i})

\* C1: no element of the list returned by detect_qr_codes has an empty
\* decoded text, whatever the detector returned.
C1_NoEmptyText ==
  DetectionReturned => \A k \in 1..Len(results) : results[k].data # ""

\* an undecoded symbol was located between two decoded ones and only the
\* decoded ones were returned
C1_Witness ==
  /\ pc = "detected"
  /\ Len(Out.decoded_texts) = 3 /\ Len(Out.points) = 3
  /\ Out.decoded_texts[1] # "" /\ Out.decoded_texts[2] = "" /\ Out.decoded_texts[3] # ""
  /\ Len(results) = 2

\* C2: for every output of the detector, detect_qr_codes returns exactly
\* the detector's entries whose text is non-empty, each once, in the
\* detector's relative order, each with the boundary emitted at the position
\* of its text.
C2_ExactlyDecodedInOrder ==
  (detector_log # <<>> /\ ~Out.raises) =>
    /\ pc # "raised"
    /\ Len(results) = Cardinality(Decoded)
    /\ \A i \in Decoded :
         /\ results[Rank(i)].data = Out.decoded_texts[i]
         /\ results[Rank(i)].points = Out.points[i]

\* C3: when the detector returns no symbol, or no boundary output at all
\* (whatever the decoded texts are), detect_qr_codes returns the empty list
\* and raises nothing.
C3_NothingFoundIsEmptyList ==
  ( /\ detector_log # <<>>
    /\ ~Out.raises
    /\ \/ Out.points_none
       \/ Len(Out.decoded_texts) = 0
       \/ Len(Out.points) = 0 )
  => (pc # "raised" /\ exc = "" /\ results = <<>>)

\* C4: draw_qr_boxes leaves the array it was given unchanged; it draws on a
\* fresh copy of it, and the copy is what it returns.
C4_InputBufferUnchanged ==
  [][ pc = "col1" =>
        /\ bgr_image' = bgr_image
        /\ heap'[bgr_image] = heap[bgr_image]
        /\ annotated' # bgr_image
        /\ heap'[annotated'].px = heap[bgr_image].px ]_vars

\* two symbols were drawn
C4_Witness ==
  /\ pc = "col2"
  /\ Len(results) >= 2
  /\ Len(heap[annotated].drawn) >= 4
  /\ heap[bgr_image].drawn = <<>>

\* p is h half pixels truncated toward zero to whole pixels
TruncatedTo(h, p) ==
  \/ h >= 0 /\ 2 * p <= h /\ h < 2 * p + 2
  \/ h < 0 /\ 2 * p - 2 < h /\ h <= 2 * p

\* C5: draw_qr_boxes draws one closed polygon and one label per symbol, in
\* list order; polygons and labels both number len(results); the k-th label
\* is "<k>: <text>" and sits at the pixel of the symbol's first boundary
\* point (its coordinates converted to integers).
C5_OnePolygonOneLabelPerSymbol ==
  Annotated =>
    LET d == heap[annotated].drawn
        n == Len(results)
    IN  /\ Cardinality({i \in 1..Len(d) : d[i].fn = "polylines"}) = n
        /\ Cardinality({i \in 1..Len(d) : d[i].fn = "putText"}) = n
        /\ \A k \in 1..n :
             /\ d[2 * k - 1].fn = "polylines"
             /\ d[2 * k - 1].isClosed
             /\ Len(d[2 * k - 1].pts) = 4
             /\ \A j \in 1..4 : \A c \in 1..2 :
                  TruncatedTo(results[k].points[j][c], d[2 * k - 1].pts[j][c])
             /\ d[2 * k].fn = "putText"
             /\ d[2 * k].text = ToString(k) \o ": " \o results[k].data
             /\ \A c \in 1..2 :
                  TruncatedTo(results[k].points[1][c], d[2 * k].org[c])

\* three symbols were annotated, one starting at a fractional, negative x
C5_Witness ==
  /\ pc = "col2"
  /\ Len(results) = 3
  /\ results[2].points = BoxB
  /\ Len(heap[annotated].drawn) = 6

\* C6: format_results returns, for position i (from 0), "<i+1>. <text>",
\* same length and order as its input; the empty list for the empty list;
\* the input list is not modified.
C6_FormatResults ==
  [][ pc = "metric" =>
        /\ results' = results
        /\ format_results(<<>>) = <<>>
        /\ Len(results) > 0 =>
             LET shown == ui'[Len(ui')]
             IN  /\ shown.kind = "write_list"
                 /\ Len(shown.body) = Len(results)
                 /\ \A i \in 1..Len(results) :
                      shown.body[i] = ToString(i) \o ". " \o results[i].data ]_vars

\* a list of three symbols was formatted
C6_Witness ==
  /\ pc = "done"
  /\ Len(results) = 3
  /\ ui[Len(ui)].kind = "write_list"
  /\ ui[Len(ui)].body[3] = "3. " \o results[3].data

\* kinds of element main() renders only after a successful detection
SuccessKinds == {"columns", "subheader", "image", "metric", "write_list", "warning"}

\* C7: when the detector call fails, detect_qr_codes hands that exception
\* to its caller unchanged, after a single detector call, with no result
\* list, and the request renders none of the success outputs.
C7_FailurePropagates ==
  /\ (detector_log # <<>> /\ Out.raises) =>
       /\ pc = "raised"
       /\ exc = Out.exc
       /\ Len(detector_log) = 1
  /\ (pc = "raised" \/ (detector_log # <<>> /\ Out.raises)) =>
       /\ results = <<>>
       /\ annotated = 0
       /\ \A i \in 1..Len(ui) : ui[i].kind \notin SuccessKinds

\* the detector raised and the request ended with that exception
C7_Witness ==
  /\ pc = "raised"
  /\ Out.raises
  /\ exc = "MemoryError"

\* kinds of element that carry a message to the user
MessageKinds == {"error", "exception", "warning", "info", "write", "title"}

\* C8 as stated: a failed detector call is reported to the user as
\* "detection failed".
C8_ReportedAsDetectionFailed ==
  (detector_log # <<>> /\ Out.raises) =>
    \E i \in 1..Len(ui) :
      ui[i].kind \in MessageKinds /\ ui[i].body = "detection failed"

\* C8 as amended: when the detector call fails, main() neither catches the
\* exception nor renders any message about it, and falls back on nothing:
\* the exception leaves main() and the page holds only what was rendered
\* before the call.
C8_FailureLeavesMainUnreported ==
  (detector_log # <<>> /\ Out.raises) =>
    /\ pc = "raised"
    /\ exc \in Exceptions
    /\ ui = Header
    /\ \A i \in 1..Len(ui) : ui[i].kind \notin {"error", "exception", "warning", "info"}

\* the detector raised cv2.error while an upload was being handled
C8_Witness ==
  /\ pc = "raised"
  /\ uploaded_file.present
  /\ Out.exc = "cv2.error"
  /\ exc = "cv2.error"

\* positions of the elements of a kind
OfKind(kind) == {i \in 1..Len(ui) : ui[i].kind = kind}

\* C9: after a successful detection the page shows the metric "QR Codes
\* Found" with the number of decoded symbols, and exactly one of the list
\* of formatted strings (one per symbol, when there is at least one symbol)
\* and the warning (when there is none).
C9_MetricAndListOrWarning ==
  (pc = "done" /\ uploaded_file.present) =>
    /\ Cardinality(OfKind("metric")) = 1
    /\ \A i \in OfKind("metric") :
         ui[i].body.label = "QR Codes Found" /\ ui[i].body.value = Len(results)
    /\ Cardinality(OfKind("write_list")) + Cardinality(OfKind("warning")) = 1
    /\ Cardinality(OfKind("write_list")) = 1 <=> Len(results) >= 1
    /\ \A i \in OfKind("write_list") : Len(ui[i].body) = Len(results)

\* a request that ended with the warning and the metric 0 although the
\* detector had located a symbol
C9_Witness ==
  /\ pc = "done"
  /\ uploaded_file.present
  /\ Len(Out.decoded_texts) >= 1 /\ Len(Out.points) >= 1
  /\ OfKind("warning") # {}
  /\ \E i \in OfKind("metric") : ui[i].body.value = 0

\* C10: every QRCodeResult returned by detect_qr_codes has a boundary of
\* exactly 4 points, in the order the detector emitted them.
C10_BoundaryFourPointsInOrder ==
  DetectionReturned =>
    \A k \in 1..Len(results) :
      /\ Len(results[k].points) = 4
      /\ \E i \in Entries :
           /\ Out.decoded_texts[i] = results[k].data
           /\ \A j \in 1..4 : results[k].points[j] = Out.points[i][j]

\* both boundaries were returned, each with its own text
C10_Witness ==
  /\ pc = "detected"
  /\ Len(results) = 2
  /\ results[1].points = BoxB /\ results[2].points = BoxA
  /\ results[1].data # results[2].data
====
